---- MODULE Spec2Model ----
(***************************************************************************)
(* PdfPptxVideo: a document (PDF / PowerPoint) is analysed by an AI        *)
(* backend, the narration is reviewed, and a narrated video is recorded    *)
(* in the browser.                                                         *)
(*                                                                         *)
(* The repository holds two revisions of the App component and of the     *)
(* AI service.  Both are modelled; the revision is fixed by Init.          *)
(*   app = "A"  : src/unnamed/part_000 (PDF only)                          *)
(*   app = "B"  : src/unnamed/part_001 (PDF and PPTX)                      *)
(*   svc = "G1" : src/unnamed/part_002 lines 1-191                         *)
(*   svc = "G2" : src/unnamed/part_002 lines 193-385                       *)
(* Definitions prefixed A_ model part_000, those prefixed B_ part_001.     *)
(***************************************************************************)
EXTENDS Integers, Sequences, FiniteSets, TLC

\* ------------------------------------------------------------------ bounds
MaxPages == 2
MaxRecs == 2
\* concurrently suspended async runs (startAnalysis / createVideo)
MaxRuns == 2
\* file selections, startAnalysis runs and createVideo runs per page load
MaxUploads == 2
MaxAnalyses == 2
MaxVideos == 2
\* longest narration, in ticks of 100 ms
MaxDur == 2
\* most slide files in a PPTX archive
MaxSlideFiles == 3
\* most slides of an analysis handed to createPresentation
MaxDeck == 2
\* the last calendar date followed (the page is first loaded on date 1)
MaxDays == 2
\* most narration records of a document in a whole session
MaxSessionSlides == 1

\* ------------------------------------------------------------------ values
Apps == {"A", "B"}
Svcs == {"G1", "G2"}

\* `undefined` of an optional field
Undefined == "undefined"

Titles == {"", "T"}
NotesTexts == {"", "n1", "n2"}

\* A narration record of the AI response: { pageIndex, title, notes }.
AiRecord == [pageIndex : (-1)..MaxPages, title : Titles, notes : NotesTexts]

\* Every AI response of at most MaxRecs records, in any order.
AiResponses == UNION {[1..k -> AiRecord] : k \in 0..MaxRecs}

\* canvas.toDataURL(...) of page i (zero-based): a non-empty data URL.
PageImage(i) == "img" \o ToString(i)

\* images: string[] as renderPdfToImages / createSlideImagesFromPptx return it.
Images(n) == [i \in 1..n |-> PageImage(i - 1)]

\* ------------------------------------------------------------------ analyzeDocument
RECURSIVE InsertByPageIndex(_, _)
\* One step of the stable sort (a, b) => a.pageIndex - b.pageIndex.
InsertByPageIndex(sorted, rec) ==
  IF sorted = <<>> THEN <<rec>>
  ELSE IF sorted[Len(sorted)].pageIndex <= rec.pageIndex
       THEN Append(sorted, rec)
       ELSE Append(InsertByPageIndex(SubSeq(sorted, 1, Len(sorted) - 1), rec),
                   sorted[Len(sorted)])

RECURSIVE SortByPageIndex(_)
SortByPageIndex(s) ==
  IF s = <<>> THEN <<>>
  ELSE InsertByPageIndex(SortByPageIndex(SubSeq(s, 1, Len(s) - 1)), s[Len(s)])

\* G1: JSON.parse(text) then result.slides.sort(...) by pageIndex.
G1_analyzeDocument(resp) == SortByPageIndex(resp)

\* G2: JSON.parse(text), returned as it is.
G2_analyzeDocument(resp) == resp

analyzeDocument(s, resp) ==
  IF s = "G1" THEN G1_analyzeDocument(resp) ELSE G2_analyzeDocument(resp)

\* ------------------------------------------------------------------ synchronizer
\* `ページ ${i + 1}`
PlaceholderTitle(i) == "Page " \o ToString(i + 1)

\* "このページの解説を生成できませんでした。"
PlaceholderNotes == "no-narration"

\* The record that stands for `undefined` where a narration record is expected;
\* its fields read as undefined (aiSlide?.title).
NoRecord == [pageIndex |-> -2, title |-> "", notes |-> ""]

\* result.slides.find(s => s.pageIndex === i): the first match, or undefined.
Find(slides, i) ==
  LET hits == {k \in 1..Len(slides) : slides[k].pageIndex = i}
  IN IF hits = {} THEN NoRecord
     ELSE slides[CHOOSE k \in hits : \A j \in hits : k <= j]

\* x || y on strings: the empty string (and undefined) is falsy.
OrElse(x, y) == IF x = "" THEN y ELSE x

\* part_000: for (i = 0; i < numPages; i++) finalSlides.push({...}).
A_finalSlides(resultSlides, images, numPages) ==
  [k \in 1..numPages |->
     LET i == k - 1
         aiSlide == Find(resultSlides, i)
     IN [pageIndex |-> i,
         title |-> OrElse(aiSlide.title, PlaceholderTitle(i)),
         notes |-> OrElse(aiSlide.notes, PlaceholderNotes),
         imageUrl |-> images[k]]]

\* part_001: result.slides.map((s, i) => ({ ...s, imageUrl: images[i] || undefined })).
B_finalSlides(resultSlides, images) ==
  [k \in 1..Len(resultSlides) |->
     [pageIndex |-> resultSlides[k].pageIndex,
      title |-> resultSlides[k].title,
      notes |-> resultSlides[k].notes,
      imageUrl |-> IF k <= Len(images) THEN images[k] ELSE Undefined]]


\* Synchronization as startAnalysis performs it on the AI response `resp` for a
\* document of n extracted pages.  part_000 calls analyzePdfForPpt, whose result
\* is any response; part_001 calls analyzeDocument of the service revision s.
Synchronized(a, s, n, resp) ==
  IF a = "A" THEN A_finalSlides(resp, Images(n), n)
  ELSE B_finalSlides(analyzeDocument(s, resp), Images(n))

\* ------------------------------------------------------------------ state
VARIABLES
  app,          \* revision of the App component
  svc,          \* revision of the AI service
  sN,           \* synchronizer check: number of extracted pages
  sResp,        \* synchronizer check: the AI response
  sOut,         \* synchronizer check: finalSlides
  sDone,        \* synchronizer check: the merge has run
  file,         \* useState file / pdfFile
  status,       \* appState.status
  analysis,     \* useState analysis: 0 (null) or the id of the slide objects
  heap,         \* the slide objects of each analysis (shared by reference)
  videoUrl,     \* useState videoUrl: 0 (null) or the file the video was made of
  remainingQuota, \* useState remainingQuota
  stored,       \* localStorage 'pdf_video_quota'
  today,        \* new Date().toISOString().split('T')[0]
  canvas,       \* what the shared canvas (canvasRef) shows
  runs,         \* the suspended async runs and what the ended ones left behind
  counts,       \* uploads, startAnalysis runs and createVideo runs so far
  retry,        \* one call of callWithRetry: its loop and what it has done
  pptx,         \* one PPTX archive, what was extracted from it and its images
  pres          \* one call of createPresentation and the deck it builds

syncVars == <<sN, sResp, sOut, sDone>>
libVars == <<retry, pptx, pres>>
appVars == <<file, status, analysis, heap, videoUrl, remainingQuota, stored,
             today, canvas, runs, counts>>
vars == <<app, svc, sN, sResp, sOut, sDone, file, status, analysis, heap,
          videoUrl, remainingQuota, stored, today, canvas, runs, counts,
          retry, pptx, pres>>

\* ------------------------------------------------------------ library state
\* What one invocation of the operation passed to callWithRetry ends with: a
\* result, an empty (falsy) result, or an error.  An error's message is told
\* by the markers it carries: in the text of error.message of a JSON body
\* (`detail`), or elsewhere in the raw message (`envelope`).
Markers == {"503", "429", "RESOURCE_EXHAUSTED", "SAFETY"}

NoOutcome == [kind |-> "none", json |-> FALSE, detail |-> {}, envelope |-> {}]

Errors ==
  {e \in [kind : {"error"}, json : BOOLEAN, detail : SUBSET Markers,
          envelope : SUBSET Markers] : ~e.json => e.envelope = {}}

Outcomes ==
  {[NoOutcome EXCEPT !.kind = "ok"], [NoOutcome EXCEPT !.kind = "empty"]} \cup Errors

\* No call of callWithRetry is being followed.
NoRetry ==
  [pc |-> "idle", calls |-> 0, delay |-> 0, waits |-> <<>>, last |-> NoOutcome,
   thrown |-> "none"]

\* No PPTX archive is being followed.
NoPptx == [files |-> <<>>, pc |-> "idle", slides |-> <<>>, images |-> <<>>]

\* No call of createPresentation is being followed.
NoPres ==
  [rev |-> "none", title |-> "", slides |-> <<>>, pc |-> "idle", built |-> <<>>,
   why |-> "none"]

\* ------------------------------------------------------------------ app state
\* const DAILY_LIMIT
A_DAILY_LIMIT == 3
B_DAILY_LIMIT == 5
DAILY_LIMIT == IF app = "A" THEN A_DAILY_LIMIT ELSE B_DAILY_LIMIT

Statuses == {"idle", "rendering", "analyzing", "reviewing", "audio_generating",
             "video_recording", "completed", "error"}

\* file.type: application/pdf, ...presentationml.presentation, anything else
Kinds == {"pdf", "pptx", "other"}

\* file === null
NoFile == [gen |-> 0, kind |-> "none"]

\* localStorage.getItem(...) === null
NoData == [date |-> -1, count |-> 0]

\* An analysis that does not exist (yet, or any more).
NoSlides == [slides |-> <<>>, of |-> 0]

\* A run slot that holds no run.
NoRun ==
  [kind |-> "none", pc |-> "free", file |-> NoFile, pages |-> 0, aid |-> 0,
   i |-> 0, left |-> 0, ctx |-> "none", rec |-> "none",
   \* history of the run, kept for the properties below
   reqs |-> <<>>, out |-> 0, paced |-> TRUE, unpaced |-> FALSE,
   audioLeft |-> 0, cut |-> FALSE, drew |-> {}, preDrawn |-> FALSE,
   frame0 |-> FALSE, settled |-> FALSE, reDrawn |-> FALSE, played |-> 0,
   used |-> 0, at |-> "free", trailed |-> FALSE]

Slots == 1..MaxRuns

InFlight(r) == runs[r].pc \notin {"free", "done", "failed"}

\* The slot a new run takes: the lowest one that holds no suspended run.
FreeSlot == CHOOSE r \in Slots : ~InFlight(r) /\ \A q \in Slots : ~InFlight(q) => r <= q

HasFreeSlot == \E r \in Slots : ~InFlight(r)

\* What an ended run leaves behind: a createVideo run its audio context and
\* recorder, and where and how it ended; a startAnalysis run nothing.
Ended(run, how) ==
  IF run.kind = "video"
  THEN [NoRun EXCEPT !.kind = run.kind, !.pc = how, !.ctx = run.ctx, !.rec = run.rec,
                     !.i = run.i, !.reqs = run.reqs, !.used = run.used, !.at = run.pc]
  ELSE NoRun

\* Slide objects nobody refers to any more are collected.
Collect(h, an, rs) ==
  [a \in 1..MaxAnalyses |->
     IF an = a \/ \E r \in Slots : rs[r].pc \notin {"free", "done", "failed"} /\ rs[r].aid = a
     THEN h[a] ELSE NoSlides]

\* checkQuota, run once when the component mounts.
checkQuota(prior, day, limit) ==
  IF prior # NoData /\ prior.date = day
  THEN [stored |-> prior,
        remaining |-> IF limit - prior.count > 0 THEN limit - prior.count ELSE 0]
  ELSE [stored |-> [date |-> day, count |-> 0], remaining |-> limit]

\* What localStorage may hold when the page loads.
PriorStorage(limit) ==
  {NoData} \cup [date : {0, 1}, count : {0, limit - 1, limit}]

Init ==
  /\ app \in Apps
  /\ svc = "G2"
  /\ sN = 0 /\ sResp = <<>> /\ sOut = <<>> /\ sDone = FALSE
  /\ retry = NoRetry /\ pptx = NoPptx /\ pres = NoPres
  /\ today = 1
  /\ \E prior \in PriorStorage(DAILY_LIMIT) :
       /\ stored = checkQuota(prior, today, DAILY_LIMIT).stored
       /\ remainingQuota = checkQuota(prior, today, DAILY_LIMIT).remaining
  /\ file = NoFile
  /\ status = "idle"
  /\ analysis = 0
  /\ heap = [a \in 1..MaxAnalyses |-> NoSlides]
  /\ videoUrl = 0
  /\ canvas = "empty"
  /\ runs = [r \in Slots |-> NoRun]
  /\ counts = [uploads |-> 0, analyses |-> 0, videos |-> 0]

\* The error overlay (fixed inset-0 z-50) covers every control.
OverlayShown == status = "error"

\* Step card 1 takes pointer events when it is active or completed.
Card1Clickable == status = "idle" \/ (file # NoFile /\ status # "idle")

\* Step card 2 takes pointer events when it is active or completed.
Card2Clickable ==
  status \in {"rendering", "analyzing", "reviewing", "audio_generating",
              "video_recording", "completed"}

\* Step card 2 shows the slide list (and its buttons) rather than the spinner.
SlideListShown ==
  /\ status \notin {"rendering", "analyzing", "audio_generating", "video_recording"}
  /\ analysis # 0

\* part_000 handleFileUpload: only a PDF is taken; the input is rendered while
\* quota remains.
A_handleFileUpload ==
  /\ app = "A"
  /\ ~OverlayShown /\ Card1Clickable /\ remainingQuota > 0
  /\ counts.uploads < MaxUploads
  /\ \E kind \in Kinds :
       IF kind = "pdf"
       THEN /\ file' = [gen |-> counts.uploads + 1, kind |-> kind]
            /\ analysis' = 0
            /\ videoUrl' = 0
            /\ status' = "idle"
            /\ heap' = Collect(heap, 0, runs)
       ELSE UNCHANGED <<file, analysis, videoUrl, status, heap>>
  /\ counts' = [counts EXCEPT !.uploads = @ + 1]
  /\ UNCHANGED <<app, svc, syncVars, libVars, remainingQuota, stored, today, canvas, runs>>

\* part_001 handleFileUpload: any selected file is taken.
B_handleFileUpload ==
  /\ app = "B"
  /\ ~OverlayShown /\ Card1Clickable
  /\ counts.uploads < MaxUploads
  /\ \E kind \in Kinds :
       file' = [gen |-> counts.uploads + 1, kind |-> kind]
  /\ analysis' = 0
  /\ videoUrl' = 0
  /\ status' = "idle"
  /\ heap' = Collect(heap, 0, runs)
  /\ counts' = [counts EXCEPT !.uploads = @ + 1]
  /\ UNCHANGED <<app, svc, syncVars, libVars, remainingQuota, stored, today, canvas, runs>>

\* The AI responses the app is driven with: k records in page order.
AppResponses ==
  {[j \in 1..k |-> [pageIndex |-> j - 1, title |-> "T", notes |-> "n1"]] : k \in 0..MaxRecs}

\* The slide objects of a fresh analysis: no audioBuffer yet (-1).
SlideObjects(slides) ==
  [k \in 1..Len(slides) |->
     [pageIndex |-> slides[k].pageIndex, title |-> slides[k].title,
      notes |-> slides[k].notes, imageUrl |-> slides[k].imageUrl, audio |-> -1]]

\* part_000 startAnalysis up to its first await: the PDF is being rendered.
\* The button is shown for a file in status idle while quota remains.
A_startAnalysis ==
  /\ app = "A"
  /\ ~OverlayShown /\ Card1Clickable
  /\ file # NoFile /\ status = "idle"
  /\ remainingQuota > 0
  /\ HasFreeSlot
  /\ counts.analyses < MaxAnalyses
  /\ counts' = [counts EXCEPT !.analyses = @ + 1]
  /\ status' = "rendering"
  /\ runs' = [runs EXCEPT ![FreeSlot] =
                [NoRun EXCEPT !.kind = "analysis", !.pc = "extract", !.file = file,
                              !.aid = counts.analyses + 1]]
  /\ UNCHANGED <<app, svc, syncVars, libVars, file, analysis, heap, videoUrl,
                 remainingQuota, stored, today, canvas>>

\* part_001 startAnalysis up to its first await: a PDF is being rendered, a
\* PPTX extracted; for any other type it goes straight on to the file read
\* with no pages.
B_startAnalysis ==
  /\ app = "B"
  /\ ~OverlayShown /\ Card1Clickable
  /\ file # NoFile /\ status = "idle"
  /\ remainingQuota > 0
  /\ HasFreeSlot
  /\ counts.analyses < MaxAnalyses
  /\ counts' = [counts EXCEPT !.analyses = @ + 1]
  /\ LET run == [NoRun EXCEPT !.kind = "analysis", !.file = file,
                              !.aid = counts.analyses + 1]
     IN IF file.kind = "other"
        THEN /\ status' = "analyzing"
             /\ runs' = [runs EXCEPT ![FreeSlot] = [run EXCEPT !.pc = "read"]]
        ELSE /\ status' = "rendering"
             /\ runs' = [runs EXCEPT ![FreeSlot] = [run EXCEPT !.pc = "extract"]]
  /\ UNCHANGED <<app, svc, syncVars, libVars, file, analysis, heap, videoUrl,
                 remainingQuota, stored, today, canvas>>

\* renderPdfToImages / extractTextFromPptx + createSlideImagesFromPptx return
\* (n pages) or throw.
startAnalysis_extracted(r) ==
  /\ runs[r].kind = "analysis" /\ runs[r].pc = "extract"
  /\ \/ \E n \in 0..MaxPages :
          /\ runs[r].file.kind = "pdf" => n >= 1
          /\ status' = "analyzing"
          /\ runs' = [runs EXCEPT ![r] = [@ EXCEPT !.pc = "read", !.pages = n]]
     \/ /\ status' = "error"
        /\ runs' = [runs EXCEPT ![r] = Ended(@, "failed")]
  /\ UNCHANGED <<app, svc, syncVars, libVars, file, analysis, heap, videoUrl,
                 remainingQuota, stored, today, canvas, counts>>

\* The FileReader is done.  onload: the base64 text is there and
\* analyzeDocument is called.  The read fails: only onload is set, so the
\* promise is never settled and the run stays suspended for good.
startAnalysis_fileRead(r) ==
  /\ runs[r].kind = "analysis" /\ runs[r].pc = "read"
  /\ \/ runs' = [runs EXCEPT ![r] = [@ EXCEPT !.pc = "ai"]]
     \/ runs' = [runs EXCEPT ![r] = [@ EXCEPT !.pc = "stalled"]]
  /\ UNCHANGED <<app, svc, syncVars, libVars, file, status, analysis, heap, videoUrl,
                 remainingQuota, stored, today, canvas, counts>>

\* The AI call returns (the slides are merged, setAnalysis, reviewing) or throws.
startAnalysis_analyzed(r) ==
  /\ runs[r].kind = "analysis" /\ runs[r].pc = "ai"
  /\ \/ \E resp \in AppResponses :
          LET objs == SlideObjects(Synchronized(app, svc, runs[r].pages, resp))
              rs == [runs EXCEPT ![r] = Ended(@, "done")]
          IN /\ analysis' = runs[r].aid
             /\ status' = "reviewing"
             /\ runs' = rs
             /\ heap' = Collect([heap EXCEPT ![runs[r].aid] =
                                   [slides |-> objs, of |-> runs[r].file.gen]],
                                runs[r].aid, rs)
     \/ /\ status' = "error"
        /\ runs' = [runs EXCEPT ![r] = Ended(@, "failed")]
        /\ UNCHANGED <<analysis, heap>>
  /\ UNCHANGED <<app, svc, syncVars, libVars, file, videoUrl, remainingQuota, stored,
                 today, canvas, counts>>

\* ------------------------------------------------------------------ createVideo
\* Fixed trailing padding of a slide's window (600 ms, 300 ms), in ticks of
\* 100 ms.
A_PADDING == 6
B_PADDING == 3
Padding == IF app = "A" THEN A_PADDING ELSE B_PADDING

Max(a, b) == IF a >= b THEN a ELSE b

\* Date.now() has advanced by e ticks; what is left until endTime (-1: past it).
After(left, e) == Max(left - e, -1)

\* What is left of the narration after e more ticks; below zero: the time
\* since it ended, followed as far as the padding and one tick more.
AudioAfter(audioLeft, e) == Max(audioLeft - e, 0 - Padding - 1)

\* The slide is left while its narration plus the padding has not elapsed.
CutShort(audioLeft) == audioLeft + Padding > 0

\* part_000: endTime = startTime + duration * 1000 + 600
A_endTime(d) == d + A_PADDING

\* part_001: endTime = Date.now() + duration * 1000 + 300
B_endTime(d) == d + B_PADDING

\* part_000: while (Date.now() < endTime)
A_whileShowing(left) == left > 0

\* part_000: if (elapsed > duration * 1000 + 600) break
A_breaks(left) == left < 0

\* The loop of part_001 leaving the slide when its narration ends.
B_whileShowing_UntilNarrationEnds(left) == left > B_PADDING

\* part_001: while (Date.now() < endTime)
B_whileShowing(left) == left > 0

\* The slide objects a createVideo run works on (slidesWithAudio).
SlidesOf(run) == heap[run.aid].slides

\* A speech request that sends the placeholder for notes that are empty.
Request_PlaceholderForEmpty(run, idx) ==
  [run EXCEPT !.pc = "tts", !.i = idx,
              !.reqs = Append(@, [i |-> idx,
                                  text |-> OrElse(SlidesOf(run)[idx + 1].notes,
                                                  PlaceholderNotes)]),
              !.out = @ + 1,
              !.unpaced = @ \/ ~run.paced]

\* generateSpeechForText(slidesWithAudio[i].notes, audioCtx) is called.
Request(run, idx) ==
  [run EXCEPT !.pc = "tts", !.i = idx,
              !.reqs = Append(@, [i |-> idx, text |-> SlidesOf(run)[idx + 1].notes]),
              !.out = @ + 1,
              !.unpaced = @ \/ ~run.paced]

\* slidesWithAudio[i].audioBuffer = <decoded audio of duration d>
WithAudio(h, run, d) ==
  [h EXCEPT ![run.aid].slides[run.i + 1].audio = d]

\* part_000 drawFrame(preloadedImages[idx]): the loaded image of the slide.
A_frame(run, idx) == SlidesOf(run)[idx + 1].imageUrl

\* part_001 drawFrame(slide): the background, and the slide's image when it has
\* one and the fresh Image object is already decoded.
B_frames(run, idx) ==
  IF SlidesOf(run)[idx + 1].imageUrl = Undefined THEN {"bg"}
  ELSE {"bg", SlidesOf(run)[idx + 1].imageUrl}

\* source.start() for slide idx, whose deadline is `end` ticks away, then the
\* first drawFrame of its loop, which puts c on the canvas.
StartSlide(run, idx, end, c) ==
  [run EXCEPT !.pc = "raf", !.i = idx, !.left = end,
              !.audioLeft = SlidesOf(run)[idx + 1].audio,
              !.played = @ + 1, !.drew = {c}]

\* useQuota counting a video twice.
useQuota_Twice(st, day, limit) ==
  IF st # NoData
  THEN [stored |-> [date |-> day, count |-> st.count + 2],
        remaining |-> limit - (st.count + 2)]
  ELSE [stored |-> st, remaining |-> remainingQuota]

\* useQuota
useQuota(st, day, limit) ==
  IF st # NoData
  THEN [stored |-> [date |-> day, count |-> st.count + 1],
        remaining |-> limit - (st.count + 1)]
  ELSE [stored |-> st, remaining |-> remainingQuota]

\* A catch block that logs the error and leaves the status as it is.
Fails_Silently(r) ==
  /\ UNCHANGED status
  /\ LET rs == [runs EXCEPT ![r] = Ended(@, "failed")]
     IN /\ runs' = rs
        /\ heap' = Collect(heap, analysis, rs)

\* catch (error): setAppState({ status: 'error', ... })
Fails(r) ==
  /\ status' = "error"
  /\ LET rs == [runs EXCEPT ![r] = Ended(@, "failed")]
     IN /\ runs' = rs
        /\ heap' = Collect(heap, analysis, rs)

\* createVideo up to its first await: the audio context is created, the status
\* is audio_generating and speech for slide 0 is requested.  part_000 disables
\* the button when no quota remains.  With no slide at all the loops are
\* skipped: part_000 then throws in drawFrame(undefined).
A_createVideo ==
  /\ app = "A"
  /\ ~OverlayShown /\ Card2Clickable /\ SlideListShown
  /\ remainingQuota > 0
  /\ HasFreeSlot /\ counts.videos < MaxVideos
  /\ counts' = [counts EXCEPT !.videos = @ + 1]
  /\ LET r == FreeSlot
         run == [NoRun EXCEPT !.kind = "video", !.aid = analysis, !.ctx = "open"]
     IN IF Len(heap[analysis].slides) > 0
        THEN /\ status' = "audio_generating"
             /\ runs' = [runs EXCEPT ![r] = Request(run, 0)]
        ELSE /\ status' = "error"
             /\ runs' = [runs EXCEPT ![r] = Ended(run, "failed")]
  /\ UNCHANGED <<app, svc, syncVars, libVars, file, analysis, heap, videoUrl,
                 remainingQuota, stored, today, canvas>>

\* part_000: the speech for slide i arrives (or the call throws); the slide's
\* image is then loaded.
A_createVideo_speech(r) ==
  /\ app = "A" /\ runs[r].kind = "video" /\ runs[r].pc = "tts"
  /\ \/ \E d \in 0..MaxDur :
          /\ heap' = WithAudio(heap, runs[r], d)
          /\ runs' = [runs EXCEPT ![r] = [@ EXCEPT !.pc = "img", !.out = @ - 1,
                                                    !.paced = FALSE]]
          /\ UNCHANGED status
     \/ Fails(r)
  /\ UNCHANGED <<app, svc, syncVars, libVars, file, analysis, videoUrl, remainingQuota,
                 stored, today, canvas, counts>>

\* part_000: the image of slide i is loaded (or img.onerror rejects).  After
\* the last slide: video_recording, the recorder is created, the first frame
\* is drawn, recorder.start(), and the 400 ms settling delay begins.
A_createVideo_image(r) ==
  /\ app = "A" /\ runs[r].kind = "video" /\ runs[r].pc = "img"
  /\ \/ /\ runs[r].i + 1 < Len(SlidesOf(runs[r]))
        /\ runs' = [runs EXCEPT ![r] = Request(@, runs[r].i + 1)]
        /\ UNCHANGED <<status, canvas, heap>>
     \/ /\ runs[r].i + 1 >= Len(SlidesOf(runs[r]))
        /\ \/ /\ status' = "video_recording"
              /\ canvas' = A_frame(runs[r], 0)
              /\ runs' = [runs EXCEPT ![r] =
                            [@ EXCEPT !.pc = "settle", !.rec = "recording",
                                      !.frame0 = TRUE, !.preDrawn = TRUE]]
              /\ UNCHANGED heap
           \/ \* new MediaRecorder(...) throws
              Fails(r) /\ UNCHANGED canvas
           \/ \* recorder.start() throws
              Fails(r) /\ canvas' = A_frame(runs[r], 0)
     \/ \* img.onerror
        Fails(r) /\ UNCHANGED canvas
  /\ UNCHANGED <<app, svc, syncVars, libVars, file, analysis, videoUrl,
                 remainingQuota, stored, today, counts>>

\* part_000: the settling delay is over; the first frame is drawn again and
\* slide 0 starts playing.
A_createVideo_settled(r) ==
  /\ app = "A" /\ runs[r].kind = "video" /\ runs[r].pc = "settle"
  /\ canvas' = A_frame(runs[r], 0)
  /\ runs' = [runs EXCEPT ![r] =
                StartSlide([@ EXCEPT !.settled = TRUE, !.reDrawn = TRUE], 0,
                           A_endTime(SlidesOf(runs[r])[1].audio),
                           A_frame(runs[r], 0))]
  /\ UNCHANGED <<app, svc, syncVars, libVars, file, status, analysis, heap, videoUrl,
                 remainingQuota, stored, today, counts>>

\* part_000: requestAnimationFrame fires; the 100 ms timer is set.
A_createVideo_frame(r) ==
  /\ app = "A" /\ runs[r].kind = "video" /\ runs[r].pc = "raf"
  /\ runs' = [runs EXCEPT ![r] = [@ EXCEPT !.pc = "sleep"]]
  /\ UNCHANGED <<app, svc, syncVars, libVars, file, status, analysis, heap, videoUrl,
                 remainingQuota, stored, today, canvas, counts>>

\* part_000: the 100 ms timer fires, e ticks after the frame was drawn.  The loop goes on with
\* another drawFrame, or the slide is over: the next slide starts playing, or
\* the 500 ms trailing delay begins.
A_createVideo_polled(r) ==
  /\ app = "A" /\ runs[r].kind = "video" /\ runs[r].pc = "sleep"
  /\ \E e \in 1..2 :
       LET left == After(runs[r].left, e)
           run == [runs[r] EXCEPT !.left = left, !.audioLeft = AudioAfter(@, e)]
           next == runs[r].i + 1
       IN IF ~A_breaks(left) /\ A_whileShowing(left)
          THEN /\ canvas' = A_frame(run, run.i)
               /\ runs' = [runs EXCEPT ![r] =
                             [run EXCEPT !.pc = "raf",
                                         !.drew = @ \cup {A_frame(run, run.i)}]]
          ELSE LET over == [run EXCEPT !.cut = @ \/ CutShort(run.audioLeft)]
               IN IF next < Len(SlidesOf(run))
                  THEN /\ canvas' = A_frame(run, next)
                       /\ runs' = [runs EXCEPT ![r] =
                                     StartSlide(over, next,
                                                A_endTime(SlidesOf(run)[next + 1].audio),
                                                A_frame(run, next))]
                  ELSE /\ runs' = [runs EXCEPT ![r] = [over EXCEPT !.pc = "trail"]]
                       /\ UNCHANGED canvas
  /\ UNCHANGED <<app, svc, syncVars, libVars, file, status, analysis, heap, videoUrl,
                 remainingQuota, stored, today, counts>>

\* part_000 with useQuota() called before recorder.stop().
A_createVideo_trailed_ChargesFirst(r) ==
  /\ app = "A" /\ runs[r].kind = "video" /\ runs[r].pc = "trail"
  /\ stored' = useQuota(stored, today, DAILY_LIMIT).stored
  /\ remainingQuota' = useQuota(stored, today, DAILY_LIMIT).remaining
  /\ \/ /\ runs' = [runs EXCEPT ![r] = [@ EXCEPT !.pc = "stop", !.rec = "stopped",
                                                  !.used = @ + 1]]
        /\ UNCHANGED <<status, heap>>
     \/ /\ status' = "error"
        /\ LET rs == [runs EXCEPT ![r] = Ended([@ EXCEPT !.used = @ + 1], "failed")]
           IN /\ runs' = rs
              /\ heap' = Collect(heap, analysis, rs)
  /\ UNCHANGED <<app, svc, syncVars, libVars, file, analysis, videoUrl, today, canvas, counts>>

\* part_000: the trailing delay is over; recorder.stop() (or it throws).
A_createVideo_trailed(r) ==
  /\ app = "A" /\ runs[r].kind = "video" /\ runs[r].pc = "trail"
  /\ \/ /\ runs' = [runs EXCEPT ![r] = [@ EXCEPT !.pc = "stop", !.rec = "stopped",
                                                  !.trailed = TRUE]]
        /\ UNCHANGED <<status, heap>>
     \/ Fails(r)
  /\ UNCHANGED <<app, svc, syncVars, libVars, file, analysis, videoUrl,
                 remainingQuota, stored, today, canvas, counts>>

\* recorder.onstop: the blob is assembled; useQuota(), setVideoUrl, completed,
\* audioCtx.close().
createVideo_stopped(r) ==
  /\ runs[r].kind = "video" /\ runs[r].pc = "stop"
  /\ stored' = useQuota(stored, today, DAILY_LIMIT).stored
  /\ remainingQuota' = useQuota(stored, today, DAILY_LIMIT).remaining
  /\ videoUrl' = heap[runs[r].aid].of
  /\ status' = "completed"
  /\ LET rs == [runs EXCEPT ![r] = Ended([@ EXCEPT !.ctx = "closed", !.used = @ + 1],
                                         "done")]
     IN /\ runs' = rs
        /\ heap' = Collect(heap, analysis, rs)
  /\ UNCHANGED <<app, svc, syncVars, libVars, file, analysis, today, canvas, counts>>

\* part_001 createVideo up to its first await.  The button has no quota check.
\* With no slide at all both loops are skipped and the recorder is started and
\* stopped at once.
B_createVideo ==
  /\ app = "B"
  /\ ~OverlayShown /\ Card2Clickable /\ SlideListShown
  /\ HasFreeSlot /\ counts.videos < MaxVideos
  /\ counts' = [counts EXCEPT !.videos = @ + 1]
  /\ LET r == FreeSlot
         run == [NoRun EXCEPT !.kind = "video", !.aid = analysis, !.ctx = "open"]
     IN IF Len(heap[analysis].slides) > 0
        THEN /\ status' = "audio_generating"
             /\ runs' = [runs EXCEPT ![r] = Request(run, 0)]
        ELSE \/ /\ status' = "video_recording"
                /\ runs' = [runs EXCEPT ![r] = [run EXCEPT !.pc = "stop",
                                                           !.rec = "stopped"]]
             \/ \* new MediaRecorder(...), recorder.start() or recorder.stop() throws
                /\ status' = "error"
                /\ runs' = [runs EXCEPT ![r] = Ended(run, "failed")]
  /\ UNCHANGED <<app, svc, syncVars, libVars, file, analysis, heap, videoUrl,
                 remainingQuota, stored, today, canvas>>

\* part_001: the speech for slide i arrives (or the call throws); the 2000 ms
\* pacing delay begins.
B_createVideo_speech(r) ==
  /\ app = "B" /\ runs[r].kind = "video" /\ runs[r].pc = "tts"
  /\ \/ \E d \in 0..MaxDur :
          /\ heap' = WithAudio(heap, runs[r], d)
          /\ runs' = [runs EXCEPT ![r] = [@ EXCEPT !.pc = "pace", !.out = @ - 1,
                                                    !.paced = FALSE]]
          /\ UNCHANGED status
     \/ Fails(r)
  /\ UNCHANGED <<app, svc, syncVars, libVars, file, analysis, videoUrl, remainingQuota,
                 stored, today, canvas, counts>>

\* part_001: the pacing delay is over.  Speech for the next slide is requested;
\* after the last slide: video_recording, the recorder is created and started,
\* and slide 0 starts playing.
B_createVideo_paced(r) ==
  /\ app = "B" /\ runs[r].kind = "video" /\ runs[r].pc = "pace"
  /\ LET run == [runs[r] EXCEPT !.paced = TRUE]
     IN \/ /\ run.i + 1 < Len(SlidesOf(run))
           /\ runs' = [runs EXCEPT ![r] = Request(run, run.i + 1)]
           /\ UNCHANGED <<status, canvas, heap>>
        \/ /\ run.i + 1 >= Len(SlidesOf(run))
           /\ \/ /\ status' = "video_recording"
                 /\ \E c \in B_frames(run, 0) :
                      /\ canvas' = c
                      /\ runs' = [runs EXCEPT ![r] =
                                    StartSlide([run EXCEPT !.rec = "recording",
                                                           !.preDrawn = run.frame0], 0,
                                               B_endTime(SlidesOf(run)[1].audio), c)]
                 /\ UNCHANGED heap
              \/ \* new MediaRecorder(...) or recorder.start() throws
                 Fails(r) /\ UNCHANGED canvas
  /\ UNCHANGED <<app, svc, syncVars, libVars, file, analysis, videoUrl,
                 remainingQuota, stored, today, counts>>

\* part_001: requestAnimationFrame fires, e ticks after the frame was drawn.  The loop goes on
\* with another drawFrame, or the slide is over: the next slide starts playing,
\* or recorder.stop() is called (or throws).
B_createVideo_frame(r) ==
  /\ app = "B" /\ runs[r].kind = "video" /\ runs[r].pc = "raf"
  /\ \E e \in 0..1 :
       LET left == After(runs[r].left, e)
           run == [runs[r] EXCEPT !.left = left, !.audioLeft = AudioAfter(@, e)]
           next == runs[r].i + 1
       IN IF B_whileShowing(left)
          THEN /\ \E c \in B_frames(run, run.i) :
                    /\ canvas' = c
                    /\ runs' = [runs EXCEPT ![r] = [run EXCEPT !.drew = @ \cup {c}]]
               /\ UNCHANGED <<status, heap>>
          ELSE LET over == [run EXCEPT !.cut = @ \/ CutShort(run.audioLeft)]
               IN IF next < Len(SlidesOf(run))
                  THEN /\ \E c \in B_frames(run, next) :
                            /\ canvas' = c
                            /\ runs' = [runs EXCEPT ![r] =
                                          StartSlide(over, next,
                                                     B_endTime(SlidesOf(run)[next + 1].audio),
                                                     c)]
                       /\ UNCHANGED <<status, heap>>
                  ELSE \/ /\ runs' = [runs EXCEPT ![r] = [over EXCEPT !.pc = "stop",
                                                                    !.rec = "stopped"]]
                          /\ UNCHANGED <<status, heap, canvas>>
                       \/ Fails(r) /\ UNCHANGED canvas
  /\ UNCHANGED <<app, svc, syncVars, libVars, file, analysis, videoUrl,
                 remainingQuota, stored, today, counts>>

\* The texts a notes textarea is edited to.
EditTexts == {"", "e"}

\* part_001 handleNoteChange(index, newNote): the slide object is changed in
\* place and a new analysis object holding the same slide objects is set.
B_handleNoteChange ==
  /\ app = "B"
  /\ ~OverlayShown /\ Card2Clickable /\ SlideListShown
  /\ \E k \in 1..Len(heap[analysis].slides), t \in EditTexts :
       /\ heap[analysis].slides[k].notes # t
       /\ heap' = [heap EXCEPT ![analysis].slides[k].notes = t]
  /\ UNCHANGED <<app, svc, syncVars, libVars, file, status, analysis, videoUrl,
                 remainingQuota, stored, today, canvas, runs, counts>>

Next ==
  \/ A_handleFileUpload
  \/ B_handleFileUpload
  \/ A_startAnalysis
  \/ B_startAnalysis
  \/ \E r \in Slots : startAnalysis_extracted(r)
  \/ \E r \in Slots : startAnalysis_fileRead(r)
  \/ \E r \in Slots : startAnalysis_analyzed(r)
  \/ B_handleNoteChange
  \/ A_createVideo
  \/ \E r \in Slots : A_createVideo_speech(r)
  \/ \E r \in Slots : A_createVideo_image(r)
  \/ \E r \in Slots : A_createVideo_settled(r)
  \/ \E r \in Slots : A_createVideo_frame(r)
  \/ \E r \in Slots : A_createVideo_polled(r)
  \/ \E r \in Slots : A_createVideo_trailed(r)
  \/ B_createVideo
  \/ \E r \in Slots : B_createVideo_speech(r)
  \/ \E r \in Slots : B_createVideo_paced(r)
  \/ \E r \in Slots : B_createVideo_frame(r)
  \/ \E r \in Slots : createVideo_stopped(r)

Spec == Init /\ [][Next]_vars

\* ------------------------------------------------------------------ SpecVideo
\* A review session: a file has been analysed, the slide list is shown, and
\* the user edits notes and generates videos.
InitVideo ==
  /\ app \in Apps
  /\ svc = "G2"
  /\ sN = 0 /\ sResp = <<>> /\ sOut = <<>> /\ sDone = FALSE
  /\ retry = NoRetry /\ pptx = NoPptx /\ pres = NoPres
  /\ today = 1
  /\ \E prior \in PriorStorage(DAILY_LIMIT) :
       /\ stored = checkQuota(prior, today, DAILY_LIMIT).stored
       /\ remainingQuota = checkQuota(prior, today, DAILY_LIMIT).remaining
  /\ remainingQuota > 0
  /\ \E kind \in Kinds :
       /\ app = "A" => kind = "pdf"
       /\ file = [gen |-> 1, kind |-> kind]
       /\ \E n \in 0..MaxPages, resp \in AppResponses :
            /\ kind = "pdf" => n >= 1
            /\ kind = "other" => n = 0
            /\ heap = [a \in 1..MaxAnalyses |->
                         IF a = 1
                         THEN [slides |-> SlideObjects(Synchronized(app, svc, n, resp)),
                               of |-> 1]
                         ELSE NoSlides]
  /\ status = "reviewing"
  /\ analysis = 1
  /\ videoUrl = 0
  /\ canvas = "empty"
  /\ runs = [r \in Slots |-> NoRun]
  /\ counts = [uploads |-> 1, analyses |-> 1, videos |-> 0]

NextVideo ==
  \/ B_handleNoteChange
  \/ A_createVideo
  \/ \E r \in Slots : A_createVideo_speech(r)
  \/ \E r \in Slots : A_createVideo_image(r)
  \/ \E r \in Slots : A_createVideo_settled(r)
  \/ \E r \in Slots : A_createVideo_frame(r)
  \/ \E r \in Slots : A_createVideo_polled(r)
  \/ \E r \in Slots : A_createVideo_trailed(r)
  \/ B_createVideo
  \/ \E r \in Slots : B_createVideo_speech(r)
  \/ \E r \in Slots : B_createVideo_paced(r)
  \/ \E r \in Slots : B_createVideo_frame(r)
  \/ \E r \in Slots : createVideo_stopped(r)

SpecVideo == InitVideo /\ [][NextVideo]_vars

\* A createVideo run that is showing slide i (its audio has started, its
\* window has not been left).
Showing(r) == runs[r].kind = "video" /\ runs[r].pc \in {"raf", "sleep"}

\* A createVideo run that has ended.
VideoEnded(r) == runs[r].kind = "video" /\ runs[r].pc \in {"done", "failed"}

\* C4: no slide of a createVideo run is left before its narration plus the
\* trailing padding has elapsed (so the next slide's audio never starts inside
\* the window), and all that is drawn while slide i is shown is the background
\* and slide i's own image.
C4_WindowsDoNotOverlap ==
  \A r \in Slots :
    /\ ~runs[r].cut
    /\ Showing(r) =>
         /\ runs[r].drew \subseteq {"bg", SlidesOf(runs[r])[runs[r].i + 1].imageUrl}
         /\ runs[r].played = runs[r].i + 1
         /\ runs[r].left <= SlidesOf(runs[r])[runs[r].i + 1].audio + Padding

\* C4 happens: the second slide is being shown after a first slide whose
\* narration took time.
C4_SecondSlideShown ==
  \E r \in Slots :
    /\ Showing(r) /\ runs[r].i = 1 /\ runs[r].played = 2
    /\ SlidesOf(runs[r])[1].audio >= 1

\* C5: the recorder is started only after the first slide's frame has been
\* drawn, and no slide's audio starts before the settling delay has elapsed
\* and the first frame has been drawn again.
C5_FirstFrameBeforeRecording ==
  \A r \in Slots :
    (runs[r].kind = "video" /\ InFlight(r) /\ Len(SlidesOf(runs[r])) >= 1) =>
      /\ runs[r].rec # "none" => runs[r].preDrawn
      /\ runs[r].played >= 1 => runs[r].settled /\ runs[r].reDrawn

\* C6: a step in which a createVideo run fails changes neither the stored
\* usage counter nor remainingQuota, and the failing run has not called
\* useQuota before.
C6_FailureKeepsQuota ==
  [][\A r \in Slots :
       (runs'[r].kind = "video" /\ runs'[r].pc = "failed" /\ runs'[r] # runs[r]) =>
         /\ stored' = stored
         /\ remainingQuota' = remainingQuota
         /\ runs'[r].used = 0]_vars

\* C6 happens: a run has failed after its recorder was started.
C6_FailedWhileRecording ==
  \E r \in Slots :
    /\ runs[r].kind = "video" /\ runs[r].pc = "failed"
    /\ runs[r].rec = "recording"

\* C7: every change of the stored usage counter adds exactly one to it and is
\* made by the step in which a createVideo run ends with status completed and
\* the video URL set.
C7_CountedOnlyOnCompletion ==
  [][stored' # stored =>
       /\ stored'.count = stored.count + 1
       /\ status' = "completed"
       /\ videoUrl' # 0
       /\ \E r \in Slots :
            /\ runs[r].kind = "video" /\ runs[r].pc = "stop"
            /\ runs'[r].pc = "done" /\ runs'[r].used = 1]_vars

\* C7 happens: a run has completed and been counted.
C7_VideoCounted ==
  /\ status = "completed" /\ videoUrl # 0
  /\ stored.count >= 1
  /\ \E r \in Slots : runs[r].kind = "video" /\ runs[r].pc = "done" /\ runs[r].used = 1

\* C8: a createVideo run has at most one speech request outstanding, its
\* requests are for slides 0, 1, 2, ... in this order, and each request after
\* the first is made after the pacing delay that follows the previous response.
C8_SpeechRequestsPaced ==
  \A r \in Slots :
    /\ runs[r].out <= 1
    /\ \A k \in 1..Len(runs[r].reqs) : runs[r].reqs[k].i = k - 1
    /\ ~runs[r].unpaced

\* C9: the step in which the speech request for slide k fails ends the run
\* with status error, with no recorder started, the video URL untouched and
\* slide k the last slide requested; the ended run does nothing more.
C9_SpeechFailureAborts ==
  [][\A r \in Slots :
       /\ (runs[r].kind = "video" /\ runs[r].pc = "tts" /\ runs'[r].pc # "tts") =>
            \/ runs'[r].pc \in {"img", "pace"}
            \/ /\ runs'[r].pc = "failed"
               /\ status' = "error"
               /\ videoUrl' = videoUrl
               /\ runs'[r].rec = "none"
               /\ runs'[r].reqs = runs[r].reqs
               /\ runs'[r].reqs[Len(runs'[r].reqs)].i = runs[r].i
       /\ (VideoEnded(r) /\ runs[r].at = "tts" /\ runs'[r] # runs[r]) =>
            counts'.videos = counts.videos + 1]_vars

\* C9 happens: the speech request for the second slide has failed.
C9_SecondSpeechFailed ==
  \E r \in Slots :
    /\ runs[r].kind = "video" /\ runs[r].pc = "failed" /\ runs[r].at = "tts"
    /\ runs[r].i = 1 /\ Len(runs[r].reqs) = 2
    /\ status = "error"

\* C10: a createVideo run that has ended, completed or in error, has closed
\* the audio context it created.
C10_AudioContextClosed ==
  \A r \in Slots : VideoEnded(r) => runs[r].ctx = "closed"

\* C11: the recorder of a createVideo run is stopped only after the trailing
\* delay that follows the last slide's window has elapsed.
C11_TrailingDelayBeforeStop ==
  \A r \in Slots :
    (runs[r].kind = "video" /\ InFlight(r) /\ Len(SlidesOf(runs[r])) >= 1) =>
      (runs[r].rec = "stopped" => runs[r].trailed)

\* C24: each speech request of a createVideo run is for the next slide in list
\* order and carries that slide's notes as they stand when the request is made
\* (as handleNoteChange last set them, the empty string included), and the
\* recorder is started only when every slide has been requested.
C24_NotesSentAsEdited ==
  [][\A r \in Slots :
       /\ (/\ runs'[r].kind = "video" /\ runs'[r].pc = "tts"
           /\ (runs[r].pc # "tts" \/ runs'[r].reqs # runs[r].reqs)) =>
            LET q == runs'[r].reqs[Len(runs'[r].reqs)]
            IN /\ q.i = Len(runs'[r].reqs) - 1
               /\ q.i = runs'[r].i
               /\ q.text = heap'[runs'[r].aid].slides[q.i + 1].notes
       /\ (/\ runs'[r].kind = "video" /\ runs'[r].rec = "recording"
           /\ runs[r].rec # "recording") =>
            Len(runs'[r].reqs) = Len(heap'[runs'[r].aid].slides)]_vars

\* C24 happens: a run has requested speech for notes that were edited to the
\* empty string, after requesting it for the slide before.
C24_EmptyNotesSent ==
  \E r \in Slots :
    /\ runs[r].kind = "video" /\ runs[r].pc = "tts"
    /\ Len(runs[r].reqs) = 2
    /\ runs[r].reqs[2].text = ""
    /\ SlidesOf(runs[r])[2].notes = ""

\* C28: the remaining quota lies in 0..DAILY_LIMIT and the stored count never
\* exceeds DAILY_LIMIT.
C28_QuotaWithinLimit ==
  /\ remainingQuota \in 0..DAILY_LIMIT
  /\ stored.count <= DAILY_LIMIT

\* --------------------------------------------------------------- SpecAnalysis
\* The first phase of a session, from page load: files are chosen and
\* analysed, with the continuations of earlier startAnalysis runs pending.
NextAnalysis ==
  \/ A_handleFileUpload
  \/ B_handleFileUpload
  \/ A_startAnalysis
  \/ B_startAnalysis
  \/ \E r \in Slots : startAnalysis_extracted(r)
  \/ \E r \in Slots : startAnalysis_fileRead(r)
  \/ \E r \in Slots : startAnalysis_analyzed(r)

SpecAnalysis == Init /\ [][NextAnalysis]_vars

\* The place of a status on the way from idle to completed.
Rank(st) ==
  CASE st = "idle" -> 0
    [] st = "rendering" -> 1
    [] st = "analyzing" -> 2
    [] st = "reviewing" -> 3
    [] st = "audio_generating" -> 4
    [] st = "video_recording" -> 5
    [] st = "completed" -> 6
    [] OTHER -> 7

\* C12: the status only moves forward along idle, rendering, analyzing,
\* reviewing, audio_generating, video_recording, completed (a step may pass
\* several of them at once), or to error from a status other than completed,
\* or back to idle by a file upload; no createVideo run starts from completed;
\* and whenever the status is completed the video URL is set.
C12_StatusLifecycle ==
  [][/\ status' # status =>
          \/ status # "error" /\ status' # "error" /\ Rank(status') > Rank(status)
          \/ status' = "error" /\ status # "completed"
          \/ status' = "idle" /\ counts'.uploads = counts.uploads + 1
     /\ counts'.videos # counts.videos => status # "completed"
     /\ status' = "completed" => videoUrl' # 0]_vars

\* C13: once the status is error, no step (user action or continuation of a
\* run in flight) changes the status, the analysis or the video URL.
C13_ErrorIsTerminal ==
  [][status = "error" =>
       /\ status' = "error"
       /\ analysis' = analysis
       /\ videoUrl' = videoUrl]_vars

\* C14: at most one run of startAnalysis or createVideo is in flight.
C14_OneRunInFlight ==
  Cardinality({r \in Slots : InFlight(r)}) <= 1

\* C27: the analysis and the video URL are null or were made of the file that
\* is selected now.
C27_ResultsOfSelectedFile ==
  /\ analysis # 0 => heap[analysis].of = file.gen
  /\ videoUrl # 0 => videoUrl = file.gen

\* C30: analyzeDocument is called only for a PDF or a PPTX file, and the
\* status reviewing is reached only by the analysis of such a file.
C30_OnlyPdfOrPptxAnalysed ==
  [][\A r \in Slots :
       (runs'[r].kind = "analysis" /\ runs'[r].pc = "ai") =>
         runs'[r].file.kind \in {"pdf", "pptx"}]_vars

\* ----------------------------------------------------------- FairSpecAnalysis
\* SpecAnalysis in which every external call a startAnalysis run waits for
\* (rendering / extraction, the file read, the AI call) eventually completes
\* or fails.
FairSpecAnalysis ==
  /\ SpecAnalysis
  /\ \A r \in Slots :
       /\ WF_vars(startAnalysis_extracted(r))
       /\ WF_vars(startAnalysis_fileRead(r))
       /\ WF_vars(startAnalysis_analyzed(r))

\* C29: every started startAnalysis run eventually ends, having set the status
\* to reviewing or to error.
C29_RunsEnd ==
  \A r \in Slots :
    (runs[r].kind = "analysis" /\ InFlight(r)) ~> ~InFlight(r)

\* ------------------------------------------------------------------ SpecRetry
\* callWithRetry(fn, maxRetries = 5)
maxRetries == 5

\* let delay = 2000 (earlier variant), 3000 (later variant), in ms
G1_BASE_DELAY == 2000
G2_BASE_DELAY == 3000
BaseDelay == IF svc = "G1" THEN G1_BASE_DELAY ELSE G2_BASE_DELAY

\* Earlier variant: errorMsg = error?.message, the raw message.  The error
\* thrown for an empty result carries no marker.
G1_errorMsg(o) == o.detail \cup o.envelope

\* Later variant: errorDetail = error.message of the JSON body when the raw
\* message holds one, else the raw message.
G2_errorDetail(o) == IF o.json THEN o.detail ELSE o.detail \cup o.envelope

G1_isOverloaded(m) == "503" \in m
G1_isRateLimited(m) == "429" \in m
G2_isQuotaExceeded(m) == "429" \in m \/ "RESOURCE_EXHAUSTED" \in m
G2_isOverloaded(m) == "503" \in m

\* The earlier variant's error for a failure that is not retried.
G1_surface(m) == IF "SAFETY" \in m THEN "safety" ELSE "generic"

\* The later variant without its SAFETY branch.
G2_surface_NoSafetyBranch(d) == IF G2_isQuotaExceeded(d) THEN "quota" ELSE "generic"

\* The later variant's error for a failure that is not retried.
G2_surface(d) ==
  IF G2_isQuotaExceeded(d) THEN "quota"
  ELSE IF "SAFETY" \in d THEN "safety"
  ELSE "generic"

\* A backoff that does not grow.
Doubled_NotAtAll(delay) == delay

\* delay *= 2
Doubled(delay) == delay * 2

\* callWithRetry is called: delay is set and fn() is invoked for i = 0.
callWithRetry ==
  /\ retry.pc = "idle"
  /\ retry' = [NoRetry EXCEPT !.pc = "call", !.calls = 1, !.delay = BaseDelay]
  /\ UNCHANGED <<app, svc, syncVars, appVars, pptx, pres>>

\* Earlier variant: fn() settles.  A result is returned; an empty result
\* throws inside the try block and is handled like any error; an overloaded
\* or rate-limited error before the last attempt starts the backoff timer.
G1_callWithRetry_settled ==
  /\ svc = "G1" /\ retry.pc = "call"
  /\ \E o \in Outcomes :
       LET m == G1_errorMsg(o)
           run == [retry EXCEPT !.last = o]
       IN IF o.kind = "ok"
          THEN retry' = [run EXCEPT !.pc = "returned"]
          ELSE IF (G1_isOverloaded(m) \/ G1_isRateLimited(m)) /\ retry.calls < maxRetries
          THEN retry' = [run EXCEPT !.pc = "wait", !.waits = Append(@, retry.delay)]
          ELSE retry' = [run EXCEPT !.pc = "thrown", !.thrown = G1_surface(m)]
  /\ UNCHANGED <<app, svc, syncVars, appVars, pptx, pres>>

\* Later variant: fn() settles.  Any result is returned; an overloaded error
\* before the last attempt starts the backoff timer.
G2_callWithRetry_settled ==
  /\ svc = "G2" /\ retry.pc = "call"
  /\ \E o \in Outcomes :
       LET d == G2_errorDetail(o)
           run == [retry EXCEPT !.last = o]
       IN IF o.kind \in {"ok", "empty"}
          THEN retry' = [run EXCEPT !.pc = "returned"]
          ELSE IF G2_isOverloaded(d) /\ retry.calls < maxRetries
          THEN retry' = [run EXCEPT !.pc = "wait", !.waits = Append(@, retry.delay)]
          ELSE retry' = [run EXCEPT !.pc = "thrown", !.thrown = G2_surface(d)]
  /\ UNCHANGED <<app, svc, syncVars, appVars, pptx, pres>>

\* The backoff timer fires: delay *= 2; continue; fn() is invoked again.
callWithRetry_waited ==
  /\ retry.pc = "wait"
  /\ retry' = [retry EXCEPT !.pc = "call", !.calls = @ + 1, !.delay = Doubled(@)]
  /\ UNCHANGED <<app, svc, syncVars, appVars, pptx, pres>>

InitRetry ==
  /\ app = "B"
  /\ svc \in Svcs
  /\ sN = 0 /\ sResp = <<>> /\ sOut = <<>> /\ sDone = FALSE
  /\ retry = NoRetry /\ pptx = NoPptx /\ pres = NoPres
  /\ today = 1
  /\ stored = NoData /\ remainingQuota = DAILY_LIMIT
  /\ file = NoFile /\ status = "idle" /\ analysis = 0 /\ videoUrl = 0
  /\ heap = [a \in 1..MaxAnalyses |-> NoSlides]
  /\ canvas = "empty"
  /\ runs = [r \in Slots |-> NoRun]
  /\ counts = [uploads |-> 0, analyses |-> 0, videos |-> 0]

NextRetry ==
  \/ callWithRetry
  \/ G1_callWithRetry_settled
  \/ G2_callWithRetry_settled
  \/ callWithRetry_waited

SpecRetry == InitRetry /\ [][NextRetry]_vars

\* What the variant at hand reads of an outcome's message.
Read(o) == IF svc = "G1" THEN G1_errorMsg(o) ELSE G2_errorDetail(o)

\* fn() settles in this step.
Settles == retry.pc = "call" /\ retry'.pc # "call"

\* The call of callWithRetry is over.
RetryOver == retry.pc \in {"returned", "thrown"}

\* C15: the k-th backoff wait is the base delay times 2^(k-1), the operation
\* is invoked at most maxRetries times, an overloaded failure before the last
\* attempt is followed by a wait and another invocation, and a result is
\* returned at once, after which nothing more is invoked.
C15_ExponentialBackoff ==
  [][/\ retry'.calls <= maxRetries
     /\ \A k \in 1..Len(retry'.waits) : retry'.waits[k] = BaseDelay * 2 ^ (k - 1)
     /\ retry'.pc = "call" => Len(retry'.waits) = retry'.calls - 1
     /\ retry'.pc = "wait" => Len(retry'.waits) = retry'.calls
     /\ (Settles /\ retry'.last.kind = "error" /\ "503" \in Read(retry'.last)
           /\ retry.calls < maxRetries) =>
          retry'.pc = "wait" /\ retry'.waits = Append(retry.waits, retry'.waits[retry.calls])
     /\ retry.pc = "wait" => retry'.pc = "call" /\ retry'.calls = retry.calls + 1
     /\ (Settles /\ retry'.last.kind = "ok") =>
          retry'.pc = "returned" /\ retry'.calls = retry.calls
     /\ RetryOver => retry' = retry]_vars

\* C15 happens: the operation succeeds at its last attempt, after four waits.
C15_ReturnedAtLastAttempt ==
  /\ retry.pc = "returned" /\ retry.last.kind = "ok"
  /\ retry.calls = maxRetries /\ Len(retry.waits) = maxRetries - 1

\* C16: an error that carries a quota marker (429, RESOURCE_EXHAUSTED), and
\* is not an overload error as well, ends the call at once with the
\* quota-exceeded error: no wait, no further invocation.
C16_QuotaNotRetried ==
  [][(/\ Settles /\ retry'.last.kind = "error"
      /\ Read(retry'.last) \cap {"429", "RESOURCE_EXHAUSTED"} # {}
      /\ "503" \notin Read(retry'.last)) =>
       retry'.pc = "thrown" /\ retry'.thrown = "quota" /\ retry'.calls = retry.calls]_vars

\* C17: an error read as a content-policy block (SAFETY) and as nothing else
\* ends the call at once with the content-policy error, at any attempt; and
\* no error in which SAFETY is read is ever thrown as the generic error.
C17_SafetySurfaces ==
  [][(Settles /\ retry'.last.kind = "error" /\ "SAFETY" \in Read(retry'.last)) =>
       /\ retry'.thrown # "generic"
       /\ Read(retry'.last) = {"SAFETY"} =>
            retry'.pc = "thrown" /\ retry'.thrown = "safety"
            /\ retry'.calls = retry.calls]_vars

\* C17 happens: a content-policy error has been thrown at a later attempt.
C17_SafetyAtLaterAttempt ==
  /\ retry.pc = "thrown" /\ retry.thrown = "safety"
  /\ Read(retry.last) = {"SAFETY"} /\ retry.calls >= 2

\* C18: a failure that is neither quota-exceeded nor a content-policy block is
\* thrown as the generic error, and only when the operation has been invoked
\* maxRetries times.
C18_GenericAfterExhaustion ==
  (/\ retry.pc = "thrown"
   /\ Read(retry.last) \cap {"429", "RESOURCE_EXHAUSTED", "SAFETY"} = {}) =>
    retry.thrown = "generic" /\ retry.calls = maxRetries

\* ------------------------------------------------------------------- SpecPptx
\* The digits of the slide numbers in the names ppt/slides/slide<digits>.xml.
SlideNums == {<<1>>, <<2>>, <<9>>, <<1, 0>>}

\* A slide file of the archive and what the archive holds for it: a notes
\* file or none; no relationship file, one that names no image, or one that
\* names an image; and for that image no media file, one the browser cannot
\* decode, or a good one.
SlideFile ==
  {f \in [num : SlideNums, notes : BOOLEAN, rels : {"missing", "noimage", "image"},
          media : {"missing", "broken", "ok"}] :
     f.rels # "image" => f.media = "missing"}

\* No two files of an archive have the same name.
IsArchive(a) == \A i, j \in DOMAIN a : i # j => a[i].num # a[j].num

RECURSIVE parseInt(_)
\* parseInt(name.match(/\d+/)[0])
parseInt(digits) ==
  IF digits = <<>> THEN 0
  ELSE parseInt(SubSeq(digits, 1, Len(digits) - 1)) * 10 + digits[Len(digits)]

RECURSIVE StringBefore(_, _)
\* x < y as strings of digits
StringBefore(x, y) ==
  IF x = <<>> THEN y # <<>>
  ELSE IF y = <<>> THEN FALSE
  ELSE IF Head(x) # Head(y) THEN Head(x) < Head(y)
  ELSE StringBefore(Tail(x), Tail(y))

\* sort() with no comparator: the names are compared as strings.
compareSlideFiles_AsStrings(a, b) ==
  IF StringBefore(a.num, b.num) THEN -1 ELSE IF a.num = b.num THEN 0 ELSE 1

\* (a, b) => numA - numB
compareSlideFiles(a, b) == parseInt(a.num) - parseInt(b.num)

\* Array.prototype.sort places rec after the entries it does not come before.
InsertSlideFile(sorted, rec) ==
  LET before == {k \in 1..Len(sorted) : compareSlideFiles(sorted[k], rec) <= 0}
      n == Cardinality(before)
  IN IF \A k \in 1..Len(sorted) : k \in before <=> k <= n
     THEN SubSeq(sorted, 1, n) \o <<rec>> \o SubSeq(sorted, n + 1, Len(sorted))
     ELSE Append(sorted, rec)

RECURSIVE SortSlideFiles(_)
SortSlideFiles(a) ==
  IF a = <<>> THEN <<>>
  ELSE InsertSlideFile(SortSlideFiles(SubSeq(a, 1, Len(a) - 1)), a[Len(a)])

\* slide.image === undefined
NoImage == [data |-> "", ok |-> FALSE]

\* The text of the <a:t> runs of slide <num>.
SlideText(f) == "text" \o ToString(parseInt(f.num))

\* The notes of slide <num>: "" without a notes file.
NotesText(f) == IF f.notes THEN "notes" \o ToString(parseInt(f.num)) ELSE ""

\* The data URL of the first image the relationship file names, when the
\* archive holds that media file.
SlideImage(f) ==
  IF f.rels = "image" /\ f.media # "missing"
  THEN [data |-> "media" \o ToString(parseInt(f.num)), ok |-> f.media = "ok"]
  ELSE NoImage

\* extractTextFromPptx: content.slides
PptxSlides(a) ==
  LET slideFiles == SortSlideFiles(a)
  IN [k \in 1..Len(slideFiles) |->
        [index |-> k - 1, text |-> SlideText(slideFiles[k]),
         notes |-> NotesText(slideFiles[k]), image |-> SlideImage(slideFiles[k])]]

\* What createSlideImagesFromPptx paints for one slide: over the background
\* the decoded picture and the "Slide n" label, or without a picture the text.
PaintSlide(slide) ==
  IF slide.image = NoImage
  THEN [picture |-> "", label |-> "", text |-> slide.text]
  ELSE [picture |-> IF slide.image.ok THEN slide.image.data ELSE "",
        label |-> "Slide " \o ToString(slide.index + 1), text |-> ""]

\* An image that cannot be decoded rejects, and no image is returned.
SlideImages_RejectOnError(slides) ==
  IF \E k \in 1..Len(slides) : slides[k].image # NoImage /\ ~slides[k].image.ok
  THEN <<>>
  ELSE [k \in 1..Len(slides) |-> PaintSlide(slides[k])]

\* createSlideImagesFromPptx: one canvas.toDataURL per slide
SlideImages(slides) == [k \in 1..Len(slides) |-> PaintSlide(slides[k])]

\* extractTextFromPptx(file)
extractTextFromPptx ==
  /\ pptx.pc = "loaded"
  /\ pptx' = [pptx EXCEPT !.pc = "extracted", !.slides = PptxSlides(pptx.files)]
  /\ UNCHANGED <<app, svc, syncVars, appVars, retry, pres>>

\* createSlideImagesFromPptx(pptxContent)
createSlideImagesFromPptx ==
  /\ pptx.pc = "extracted"
  /\ pptx' = [pptx EXCEPT !.pc = "imaged", !.images = SlideImages(pptx.slides)]
  /\ UNCHANGED <<app, svc, syncVars, appVars, retry, pres>>

InitPptx ==
  /\ app = "B"
  /\ svc = "G2"
  /\ sN = 0 /\ sResp = <<>> /\ sOut = <<>> /\ sDone = FALSE
  /\ retry = NoRetry /\ pres = NoPres
  /\ \E k \in 0..MaxSlideFiles :
       \E a \in [1..k -> SlideFile] :
         /\ IsArchive(a)
         /\ pptx = [NoPptx EXCEPT !.files = a, !.pc = "loaded"]
  /\ today = 1
  /\ stored = NoData /\ remainingQuota = DAILY_LIMIT
  /\ file = NoFile /\ status = "idle" /\ analysis = 0 /\ videoUrl = 0
  /\ heap = [a \in 1..MaxAnalyses |-> NoSlides]
  /\ canvas = "empty"
  /\ runs = [r \in Slots |-> NoRun]
  /\ counts = [uploads |-> 0, analyses |-> 0, videos |-> 0]

NextPptx == extractTextFromPptx \/ createSlideImagesFromPptx

SpecPptx == InitPptx /\ [][NextPptx]_vars

\* The slide numbers of an archive.
NumbersOf(a) == {parseInt(a[k].num) : k \in 1..Len(a)}

\* C19: the slides come back in ascending order of their slide number (the
\* k-th slide is the one with k - 1 smaller numbers in the archive), one per
\* slide file, and each slide's index is its position.
C19_SlidesInNumericOrder ==
  pptx.pc \in {"extracted", "imaged"} =>
    /\ Len(pptx.slides) = Len(pptx.files)
    /\ \A k \in 1..Len(pptx.slides) :
         /\ pptx.slides[k].index = k - 1
         /\ \E n \in NumbersOf(pptx.files) :
              /\ Cardinality({m \in NumbersOf(pptx.files) : m < n}) = k - 1
              /\ pptx.slides[k].text = "text" \o ToString(n)

\* C19 happens: the archive lists slides 10, 9, 1 and has been extracted.
C19_TenNineOneExtracted ==
  /\ pptx.pc = "extracted"
  /\ Len(pptx.files) = 3
  /\ pptx.files[1].num = <<1, 0>> /\ pptx.files[2].num = <<9>> /\ pptx.files[3].num = <<1>>

\* The archive with every per-slide asset present and good.
Complete(a) ==
  [k \in 1..Len(a) |-> [a[k] EXCEPT !.notes = TRUE, !.rels = "image", !.media = "ok"]]

\* The slide file the k-th returned slide was made of.
FileOf(a, k) == SortSlideFiles(a)[k]

\* C20: whatever per-slide assets are missing or undecodable, extraction
\* returns one entry per slide file and one image per entry, and compared
\* with the archive that has every asset, an entry differs only in the notes
\* of a slide without notes file and in the image of a slide whose picture
\* is missing or undecodable.
C20_AssetsDegradePerSlide ==
  LET full == PptxSlides(Complete(pptx.files))
      fullImages == SlideImages(full)
  IN /\ pptx.pc \in {"extracted", "imaged"} =>
          /\ Len(pptx.slides) = Len(pptx.files)
          /\ \A k \in 1..Len(pptx.slides) :
               /\ pptx.slides[k].index = full[k].index
               /\ pptx.slides[k].text = full[k].text
               /\ FileOf(pptx.files, k).notes => pptx.slides[k].notes = full[k].notes
               /\ FileOf(pptx.files, k).media = "ok" =>
                    pptx.slides[k].image = full[k].image
     /\ pptx.pc = "imaged" =>
          /\ Len(pptx.images) = Len(pptx.slides)
          /\ \A k \in 1..Len(pptx.images) :
               FileOf(pptx.files, k).media = "ok" => pptx.images[k] = fullImages[k]

\* C20 happens: images were made of an archive in which one slide has no
\* notes file and another one a picture that cannot be decoded.
C20_DegradedArchiveImaged ==
  /\ pptx.pc = "imaged"
  /\ \E i, j \in 1..Len(pptx.files) :
       /\ i # j
       /\ ~pptx.files[i].notes /\ pptx.files[j].media = "broken"
  /\ \E k \in 1..Len(pptx.files) : pptx.files[k].rels = "missing"

\* ------------------------------------------------------------------ SpecPres
\* createPresentation on every bounded analysis result.  The repository holds
\* two variants: "P1" is src/unnamed/part_003, "P2" the one that follows the
\* parser in src/services/pptxParser.ts.
PresRevs == {"P1", "P2"}

\* A data URL that pptxgenjs's addImage cannot take (it throws).
BadImage == "bad"

\* The slides of the AnalysisResult handed over: title, notes and imageUrl
\* (absent, a page image, or one that cannot be embedded).
PresSlide == [title : Titles, notes : NotesTexts,
              imageUrl : {Undefined, PageImage(0), BadImage}]

\* s.addImage({ data: slide.imageUrl, ... }) throws.
addImageThrows(url) == url = BadImage

\* titleSlide: the background and the two texts; it has no notes.
TitleSlide(title) ==
  [kind |-> "title", of |-> 0, body |-> "title:" \o title, notes |-> Undefined]

\* A content slide on which addImage threw and nothing caught it: it was
\* added to the deck, and has neither body nor notes.
BareSlide(k) == [kind |-> "content", of |-> k, body |-> "none", notes |-> Undefined]

\* part_003, one turn of forEach that is not left by an exception: the image
\* (or, with no imageUrl, the title on a plain background), then addNotes.
P1_contentSlide(slide, k) ==
  [kind |-> "content", of |-> k,
   body |-> IF slide.imageUrl # Undefined THEN slide.imageUrl
            ELSE "text:" \o slide.title,
   notes |-> slide.notes]

\* pptxParser.ts, one turn of forEach: as part_003, with a try / catch around
\* addImage that puts `[Image missing: ${slide.title}]` on a plain background.
P2_contentSlide(slide, k) ==
  [kind |-> "content", of |-> k,
   body |-> IF slide.imageUrl # Undefined
            THEN IF addImageThrows(slide.imageUrl)
                 THEN "missing:" \o slide.title
                 ELSE slide.imageUrl
            ELSE "text:" \o slide.title,
   notes |-> slide.notes]

\* The first slide (1-based) whose addImage throws, 0 when none does.
FirstThrow(slides) ==
  LET bad == {k \in 1..Len(slides) : addImageThrows(slides[k].imageUrl)}
  IN IF bad = {} THEN 0 ELSE CHOOSE k \in bad : \A j \in bad : k <= j

\* part_003 data.slides.forEach(...): the exception of addImage leaves forEach.
P1_forEach(slides) ==
  LET f == FirstThrow(slides)
      n == IF f = 0 THEN Len(slides) ELSE f
  IN [k \in 1..n |-> IF k = f THEN BareSlide(k) ELSE P1_contentSlide(slides[k], k)]

\* pptxParser.ts data.slides.forEach(...)
P2_forEach(slides) == [k \in 1..Len(slides) |-> P2_contentSlide(slides[k], k)]

\* A deck built without its title slide.
Deck_NoTitleSlide(rev, title, slides) ==
  IF rev = "P1" THEN P1_forEach(slides) ELSE P2_forEach(slides)

\* The slides of `pres` when forEach is over or left: the title slide, then
\* the content slides.
Deck(rev, title, slides) ==
  <<TitleSlide(title)>> \o (IF rev = "P1" THEN P1_forEach(slides) ELSE P2_forEach(slides))

\* forEach is left by an exception, which createPresentation does not catch.
Raises(rev, slides) == rev = "P1" /\ FirstThrow(slides) # 0

\* createPresentation up to its await: the deck is built and pres.writeFile is
\* called, or the call has thrown.
createPresentation ==
  /\ pres.pc = "called"
  /\ pres' = [pres EXCEPT !.built = Deck(pres.rev, pres.title, pres.slides),
                          !.pc = IF Raises(pres.rev, pres.slides) THEN "thrown"
                                 ELSE "writing",
                          !.why = IF Raises(pres.rev, pres.slides) THEN "addImage"
                                  ELSE "none"]
  /\ UNCHANGED <<app, svc, syncVars, appVars, retry, pptx>>

\* pres.writeFile resolves (the file is downloaded) or rejects.
createPresentation_written ==
  /\ pres.pc = "writing"
  /\ \/ pres' = [pres EXCEPT !.pc = "written"]
     \/ pres' = [pres EXCEPT !.pc = "thrown", !.why = "writeFile"]
  /\ UNCHANGED <<app, svc, syncVars, appVars, retry, pptx>>

InitPres ==
  /\ app = "B"
  /\ svc = "G2"
  /\ sN = 0 /\ sResp = <<>> /\ sOut = <<>> /\ sDone = FALSE
  /\ retry = NoRetry /\ pptx = NoPptx
  /\ \E rev \in PresRevs, title \in Titles, n \in 0..MaxDeck :
       \E slides \in [1..n -> PresSlide] :
         pres = [NoPres EXCEPT !.rev = rev, !.title = title, !.slides = slides,
                               !.pc = "called"]
  /\ today = 1
  /\ stored = NoData /\ remainingQuota = DAILY_LIMIT
  /\ file = NoFile /\ status = "idle" /\ analysis = 0 /\ videoUrl = 0
  /\ heap = [a \in 1..MaxAnalyses |-> NoSlides]
  /\ canvas = "empty"
  /\ runs = [r \in Slots |-> NoRun]
  /\ counts = [uploads |-> 0, analyses |-> 0, videos |-> 0]

NextPres == createPresentation \/ createPresentation_written

SpecPres == InitPres /\ [][NextPres]_vars

EmbedFails == FirstThrow(pres.slides) # 0

\* C22: when the image of a slide cannot be embedded, createPresentation does
\* not raise for it: the deck still holds every slide, the slide in question
\* shows the error placeholder and carries its notes, and writeFile is called.
C22_EmbedFailureTolerated ==
  (pres.pc # "called" /\ EmbedFails) =>
    /\ pres.why # "addImage"
    /\ Len(pres.built) = 1 + Len(pres.slides)
    /\ \A k \in 1..Len(pres.slides) :
         /\ pres.built[k + 1].notes = pres.slides[k].notes
         /\ addImageThrows(pres.slides[k].imageUrl) =>
              pres.built[k + 1].body = "missing:" \o pres.slides[k].title

\* ------------------------------------------------------------------ SpecQuota
\* A review session over which the calendar date changes and the page may be
\* loaded again.

\* The date (UTC) moves on to the next day while the page stays open.
dateChanges ==
  /\ today < MaxDays
  /\ today' = today + 1
  /\ UNCHANGED <<app, svc, syncVars, libVars, file, status, analysis, heap, videoUrl,
                 remainingQuota, stored, canvas, runs, counts>>

\* The page is loaded again (window.location.reload() of the error overlay, or
\* the browser's): every run and all component state is gone, and the mount
\* effect runs checkQuota on what localStorage holds.
mount ==
  /\ counts.videos > 0
  /\ stored' = checkQuota(stored, today, DAILY_LIMIT).stored
  /\ remainingQuota' = checkQuota(stored, today, DAILY_LIMIT).remaining
  /\ file' = NoFile
  /\ status' = "idle"
  /\ analysis' = 0
  /\ heap' = [a \in 1..MaxAnalyses |-> NoSlides]
  /\ videoUrl' = 0
  /\ canvas' = "empty"
  /\ runs' = [r \in Slots |-> NoRun]
  /\ counts' = [uploads |-> 0, analyses |-> 0, videos |-> 0]
  /\ UNCHANGED <<app, svc, syncVars, libVars, today>>

NextQuota == NextVideo \/ dateChanges \/ mount

SpecQuota == InitVideo /\ [][NextQuota]_vars

\* A createVideo run completes its video in this step.
Completes == \E r \in Slots : runs[r].pc = "stop" /\ runs'[r].pc = "done"

\* C23: whenever the stored usage record is written, it is written for the
\* current date, and its count is the count stored so far for that same date
\* (zero when the record was of another date) plus one when a video has just
\* been completed: nothing is carried over from an earlier date.
C23_ResetOnDateRollover ==
  [][stored' # stored =>
       /\ stored'.date = today'
       /\ stored'.count = (IF stored.date = today' THEN stored.count ELSE 0)
                          + (IF Completes THEN 1 ELSE 0)]_vars

\* ---------------------------------------------------------------- SpecSession
\* A whole session of the part_001 revision from page load: files are chosen
\* and analysed, notes edited and videos generated, with the continuations of
\* earlier runs pending.  The documents are short: the AI returns at most
\* MaxSessionSlides narration records.
InitSession == Init /\ app = "B"

\* startAnalysis_analyzed for a short document.
startAnalysis_analyzed_short(r) ==
  /\ startAnalysis_analyzed(r)
  /\ \A a \in 1..MaxAnalyses : Len(heap'[a].slides) <= MaxSessionSlides

NextSession ==
  \/ B_handleFileUpload
  \/ B_startAnalysis
  \/ \E r \in Slots : startAnalysis_extracted(r)
  \/ \E r \in Slots : startAnalysis_fileRead(r)
  \/ \E r \in Slots : startAnalysis_analyzed_short(r)
  \/ B_handleNoteChange
  \/ B_createVideo
  \/ \E r \in Slots : B_createVideo_speech(r)
  \/ \E r \in Slots : B_createVideo_paced(r)
  \/ \E r \in Slots : B_createVideo_frame(r)
  \/ \E r \in Slots : createVideo_stopped(r)

SpecSession == InitSession /\ [][NextSession]_vars

\* The notes of a slide of analysis a are changed in this step.
NotesEdited(a) ==
  /\ Len(heap'[a].slides) = Len(heap[a].slides)
  /\ \E k \in 1..Len(heap[a].slides) : heap'[a].slides[k].notes # heap[a].slides[k].notes

\* A createVideo run is working on the slides of analysis a.
VideoReads(a) ==
  \E r \in Slots : runs[r].kind = "video" /\ InFlight(r) /\ runs[r].aid = a

\* C25: no notes edit changes a slide list while a createVideo run that works
\* on that list is in progress.
C25_NoEditDuringVideo ==
  [][\A a \in 1..MaxAnalyses : NotesEdited(a) => ~VideoReads(a)]_vars

\* ------------------------------------------------------------------ SpecSync
\* The synchronizer on every bounded input.
InitSync ==
  /\ app \in Apps
  /\ svc \in Svcs
  /\ sN \in 1..MaxPages
  /\ sResp \in AiResponses
  /\ sOut = <<>>
  /\ sDone = FALSE
  /\ retry = NoRetry /\ pptx = NoPptx /\ pres = NoPres
  /\ today = 1
  /\ stored = NoData /\ remainingQuota = DAILY_LIMIT
  /\ file = NoFile /\ status = "idle" /\ analysis = 0 /\ videoUrl = 0
  /\ heap = [a \in 1..MaxAnalyses |-> NoSlides]
  /\ canvas = "empty"
  /\ runs = [r \in Slots |-> NoRun]
  /\ counts = [uploads |-> 0, analyses |-> 0, videos |-> 0]

\* part_000 startAnalysis, from the AI result to setAnalysis.
A_synchronize ==
  /\ app = "A"
  /\ ~sDone
  /\ sDone' = TRUE
  /\ sOut' = A_finalSlides(sResp, Images(sN), sN)
  /\ UNCHANGED <<app, svc, sN, sResp, appVars, libVars>>

\* part_001 startAnalysis, from the AI result to setAnalysis.
B_synchronize ==
  /\ app = "B"
  /\ ~sDone
  /\ sDone' = TRUE
  /\ sOut' = B_finalSlides(analyzeDocument(svc, sResp), Images(sN))
  /\ UNCHANGED <<app, svc, sN, sResp, appVars, libVars>>

NextSync == A_synchronize \/ B_synchronize

SpecSync == InitSync /\ [][NextSync]_vars

\* Records of resp whose pageIndex lies in [0, n).
RECURSIVE InRangeOnly(_, _)
InRangeOnly(resp, n) ==
  IF resp = <<>> THEN <<>>
  ELSE LET rest == InRangeOnly(SubSeq(resp, 1, Len(resp) - 1), n)
           last == resp[Len(resp)]
       IN IF last.pageIndex \in 0..(n - 1) THEN Append(rest, last) ELSE rest

\* C1: after the merge the slide list has exactly N entries whose pageIndex
\* values are 0..N-1 in order, for any AI response.
C1_ExactlyNInOrder ==
  sDone =>
    /\ Len(sOut) = sN
    /\ \A k \in 1..Len(sOut) : sOut[k].pageIndex = k - 1

\* C2: after the merge every slide has a non-empty title and non-empty notes;
\* an index in [0, N) with no record, or with an empty string, carries the
\* placeholder.
C2_PlaceholdersFilled ==
  sDone =>
    /\ \A k \in 1..Len(sOut) : sOut[k].title # "" /\ sOut[k].notes # ""
    /\ \A i \in 0..(sN - 1) :
         LET rec == Find(sResp, i)
         IN /\ i + 1 \in DOMAIN sOut
            /\ (rec = NoRecord \/ rec.title = "")
                 => sOut[i + 1].title = PlaceholderTitle(i)
            /\ (rec = NoRecord \/ rec.notes = "")
                 => sOut[i + 1].notes = PlaceholderNotes

\* C3: a record whose pageIndex is outside [0, N) never appears in the merged
\* list, and the list equals the one computed without such records.
C3_OutOfRangeDropped ==
  sDone =>
    /\ \A k \in 1..Len(sOut) : sOut[k].pageIndex \in 0..(sN - 1)
    /\ sOut = Synchronized(app, svc, sN, InRangeOnly(sResp, sN))

\* C26: after the merge every slide whose pageIndex names a page of the
\* document carries the image extracted for that page, whatever the order and
\* completeness of the AI response.
C26_ImageOfOwnPage ==
  sDone =>
    \A k \in 1..Len(sOut) :
      sOut[k].pageIndex \in 0..(sN - 1) =>
        sOut[k].imageUrl = PageImage(sOut[k].pageIndex)

====
